---- MODULE Spec2Model ----
(***************************************************************************)
(* Model of the signed-request client core of vuesets/mwst:                *)
(*   src/src/Core/Core.ts         class Api (CreateOptions, CreateRequest, *)
(*                                CreateResponse)                          *)
(*   src/src/Core/CoreHelpers.ts  Requesting, sleepSecond, isArray,        *)
(*                                hasKeyObject                             *)
(*                                                                         *)
(* The specifications share the variables:                                 *)
(*   Spec            one CreateRequest call: the retry loop, its awaits    *)
(*   SpecLive        the same call under the scheduling of the event loop  *)
(*   SpecConcurrent  the same call, and a second logical call on the       *)
(*                   client while the first is suspended                   *)
(*   SpecClassify    the classifier inside Requesting, as a pure function  *)
(*   SpecOptions     CreateOptions on a map object the caller keeps        *)
(*   SpecSign        CreateOptions on maps that hold keys of the signer    *)
(*   SpecSort        sortObject and the signature, on objects with an      *)
(*                   insertion order                                       *)
(*   SpecClient      the constructor, ConfigureArea and ConfigureSeller    *)
(***************************************************************************)
EXTENDS Integers, Sequences, FiniteSets, TLC

VARIABLES
    Setting,    \* this.Setting: [Convert, Retrying, Throttled, IsMerchant]
    Action,     \* this.Action
    api,        \* the other fields of the client: Path, Version, Method, Headers,
                \* Area, Seller, Access
    pc,         \* where the CreateRequest call is: idle, requesting, sleeping, done
    local,      \* the constants destructured at Core.ts:115
    i,          \* the loop counter of Core.ts:117
    log,        \* what the call did so far: transport calls, settlements, sleeps
    outcome,    \* how the promise of CreateRequest settled
    resp,       \* SpecClassify: the arguments of the request callback
    settled,    \* SpecClassify: how the promise of Requesting settled
    params,     \* SpecOptions: the caller's parameter object
    parsing,    \* SpecOptions: the arrayKeyPrefixes argument
    given,      \* SpecOptions: the caller's object as it was before the first call
    returned,   \* SpecOptions: for every CreateOptions call so far, the map it was
                \* passed, the normalised map and the options it returned
    sorting,    \* SpecSort: two objects, and what sorting and signing them gave
    ctor,       \* how `new Api(seller, access)` ended: none (not called yet),
                \* constructed, or the error it threw
    mine,       \* the options object the CreateRequest call was given, and the
                \* headers object it refers to: this.Headers itself (shared) or,
                \* once this.Headers is another object, its own content
    wire        \* what each transport call of the CreateRequest call sent

vars == <<Setting, Action, api, pc, local, i, log, outcome, resp, settled,
          params, parsing, given, returned, sorting, ctor, mine, wire>>

clientVars == <<Setting, Action, api, ctor>>
engineVars == <<pc, local, i, log, outcome, wire>>
callVars == <<mine>>
classifyVars == <<resp, settled>>
optionVars == <<params, parsing, given, returned>>
sortVars == <<sorting>>

----------------------------------------------------------------------------
(* Bounds of the model *)

MaxRetrying == 2
MaxMarkers == 2
MaxArrayLen == 2
MaxCalls == 2
MaxOverrides == 2
MaxOthers == 1

----------------------------------------------------------------------------
(* Response bodies.  A body is described by the features the code reads:    *)
(* the marker words its text contains (the nine regular expressions of      *)
(* Requesting), its root element (local name, and whether the tag carries   *)
(* a namespace prefix, which the parser strips and the regular expression   *)
(* of CoreHelpers.ts:132 does not), the element under the root and its      *)
(* text.                                                                    *)

Markers == {"InputStreamDisconnected", "InvalidParameterValue", "AccessDenied",
            "InvalidAccessKeyId", "SignatureDoesNotMatch", "InvalidAddress",
            "InternalError", "QuotaExceeded", "RequestThrottled"}

Actions == {"GetOrder", "ListOrders"}

Roots == {"ErrorResponse", "GetOrderResponse", "ListOrdersResponse", "html"}

Children == {"GetOrderResult", "ListOrdersResult", "Error"}

Payloads == {"p1", "p2"}

StatusCodes == {200, 201, 302, 400, 401, 403, 404, 500, 503}

ErrorCodes == {"ESOCKETTIMEDOUT", "ETIMEDOUT", "ECONNRESET"}

NoError == "none"

MarkerSets(n) == {m \in SUBSET Markers : Cardinality(m) <= n}

BodiesOf(markerSets, children, payloads) ==
    [markers : markerSets, root : Roots, prefixed : BOOLEAN,
     child : children, payload : payloads]

NoBody == [markers |-> {}, root |-> "", prefixed |-> FALSE, child |-> "", payload |-> ""]

\* The bodies the retry loop is run on: every root, child and text, at most one marker.
EngineBodies == BodiesOf(MarkerSets(1), Children, Payloads)

\* The bodies the classifier is run on: up to MaxMarkers markers in one body.
ClassifyBodies == BodiesOf(MarkerSets(MaxMarkers), {"Error"}, {"p1"})

----------------------------------------------------------------------------
(* CoreHelpers.ts:107-139, the callback of request() inside Requesting *)

\* /<ErrorResponse.*>[\s\S]*<\/ErrorResponse>/.test(body)
HasErrorEnvelope(body) == body.root = "ErrorResponse" /\ ~body.prefixed

Reject(error) == [kind |-> "reject", error |-> error]

Resolve == [kind |-> "resolve", error |-> NoError]

\* Requesting with the two rules of status 503 in the other order
RequestingThrottledFirst(error, statusCode, body) ==
    IF error \in {"ESOCKETTIMEDOUT", "ETIMEDOUT"} THEN Reject("RequestTimeoutError")
    ELSE IF error # NoError THEN Reject("LocalRequestError")
    ELSE IF statusCode = 400 /\ "InputStreamDisconnected" \in body.markers
        THEN Reject("InputStreamDisconnected")
    ELSE IF statusCode = 400 /\ "InvalidParameterValue" \in body.markers
        THEN Reject("InvalidParameterValue")
    ELSE IF statusCode = 401 /\ "AccessDenied" \in body.markers
        THEN Reject("AccessDenied")
    ELSE IF statusCode = 403 /\ "InvalidAccessKeyId" \in body.markers
        THEN Reject("InvalidAccessKeyId")
    ELSE IF statusCode = 403 /\ "SignatureDoesNotMatch" \in body.markers
        THEN Reject("SignatureDoesNotMatch")
    ELSE IF statusCode = 404 /\ "InvalidAddress" \in body.markers
        THEN Reject("InvalidAddress")
    ELSE IF statusCode = 500 /\ "InternalError" \in body.markers
        THEN Reject("InternalError")
    ELSE IF statusCode = 503 /\ "RequestThrottled" \in body.markers
        THEN Reject("RequestThrottled")
    ELSE IF statusCode = 503 /\ "QuotaExceeded" \in body.markers
        THEN Reject("QuotaExceeded")
    ELSE IF HasErrorEnvelope(body) THEN Reject("UndefinedRequestError")
    ELSE Resolve

Requesting(error, statusCode, body) ==
    IF error \in {"ESOCKETTIMEDOUT", "ETIMEDOUT"} THEN Reject("RequestTimeoutError")
    ELSE IF error # NoError THEN Reject("LocalRequestError")
    ELSE IF statusCode = 400 /\ "InputStreamDisconnected" \in body.markers
        THEN Reject("InputStreamDisconnected")
    ELSE IF statusCode = 400 /\ "InvalidParameterValue" \in body.markers
        THEN Reject("InvalidParameterValue")
    ELSE IF statusCode = 401 /\ "AccessDenied" \in body.markers
        THEN Reject("AccessDenied")
    ELSE IF statusCode = 403 /\ "InvalidAccessKeyId" \in body.markers
        THEN Reject("InvalidAccessKeyId")
    ELSE IF statusCode = 403 /\ "SignatureDoesNotMatch" \in body.markers
        THEN Reject("SignatureDoesNotMatch")
    ELSE IF statusCode = 404 /\ "InvalidAddress" \in body.markers
        THEN Reject("InvalidAddress")
    ELSE IF statusCode = 500 /\ "InternalError" \in body.markers
        THEN Reject("InternalError")
    ELSE IF statusCode = 503 /\ "QuotaExceeded" \in body.markers
        THEN Reject("QuotaExceeded")
    ELSE IF statusCode = 503 /\ "RequestThrottled" \in body.markers
        THEN Reject("RequestThrottled")
    ELSE IF HasErrorEnvelope(body) THEN Reject("UndefinedRequestError")
    ELSE Resolve

----------------------------------------------------------------------------
(* CoreHelpers.ts:69-71: the delay handed to setTimeout, in milliseconds *)

sleepSecondUnscaled(second) == second

sleepSecond(second) == second * 1000

----------------------------------------------------------------------------
(* Core.ts:143-151 *)

Return(value) == [kind |-> "return", error |-> NoError, value |-> value]

Throw(error) == [kind |-> "throw", error |-> error, value |-> NoBody]

Pending == [kind |-> "pending", error |-> NoError, value |-> NoBody]

\* A decoded result is the text of the result element: a body-shaped value whose
\* only feature is that text ("undefined" when the element is missing).
Decoded(text) == [NoBody EXCEPT !.payload = text]

CreateResponse(body, action) ==
    IF body.root = "ErrorResponse" THEN Throw("UndefinedRequestError")
    ELSE IF body.root # action \o "Response" THEN Throw("TypeError")
    ELSE IF body.child # action \o "Result" THEN Return(Decoded("undefined"))
    ELSE Return(Decoded(body.payload))

----------------------------------------------------------------------------
(* Core.ts:114-141, CreateRequest *)

\* Core.ts:117, the loop condition
LoopCondInclusive(j, Retrying) == j <= Retrying + 1

LoopCond(j, Retrying) == j < Retrying + 1

\* Core.ts:119-124, the try block once Requesting has settled
TryBlockFormatSwapped(settle, body, Convert, action) ==
    IF settle.kind = "reject" THEN Throw(settle.error)
    ELSE IF Convert # "XML" THEN Return(body)
    ELSE CreateResponse(body, action)

TryBlock(settle, body, Convert, action) ==
    IF settle.kind = "reject" THEN Throw(settle.error)
    ELSE IF Convert = "XML" THEN Return(body)
    ELSE CreateResponse(body, action)

\* Core.ts:125-137, the catch block: what follows an error of the try block
QuotaSleepSeconds == 60 * 60

CatchSwallowsOthers(error, Throttled) ==
    IF error = "QuotaExceeded" THEN [act |-> "sleep", second |-> QuotaSleepSeconds]
    ELSE IF error = "RequestThrottled" THEN [act |-> "sleep", second |-> Throttled]
    ELSE [act |-> "retry", second |-> 0]

Catch(error, Throttled) ==
    IF error = "RequestTimeoutError" THEN [act |-> "retry", second |-> 0]
    ELSE IF error = "QuotaExceeded" THEN [act |-> "sleep", second |-> QuotaSleepSeconds]
    ELSE IF error = "RequestThrottled" THEN [act |-> "sleep", second |-> Throttled]
    ELSE [act |-> "throw", second |-> 0]

\* An entry of the log: a transport call ("request"), the settlement of
\* Requesting ("settle": the error class, or "resolve" and the body), the
\* start of a timer ("sleep": its delay in milliseconds).
Event(ev, cls, ms, body) == [ev |-> ev, cls |-> cls, ms |-> ms, body |-> body]

RequestEvent == Event("request", "", 0, NoBody)

SettleEvent(settle, body) ==
    IF settle.kind = "resolve" THEN Event("settle", "resolve", 0, body)
    ELSE Event("settle", settle.error, 0, NoBody)

SleepEvent(second) == Event("sleep", "", sleepSecond(second), NoBody)

\* Core.ts:140
ExhaustedAsLastError == Throw("RequestTimeoutError")

Exhausted == Throw("LocalExceededError")

\* The head of the for loop with counter j: the next transport call (the call
\* then waits for it), or the throw of Core.ts:140 once the loop is left.
\* Core.ts:119, what request(options) reads when it is called: the fields of
\* the options object and, through options.headers, the headers object
Sent ==
    [mine.options EXCEPT !.headers = IF mine.shared THEN api.Headers ELSE mine.headers]

LoopHead(j, L, loc) ==
    /\ i' = j
    /\ IF LoopCond(j, loc.Retrying)
       THEN /\ pc' = "requesting"
            /\ log' = Append(L, RequestEvent)
            /\ wire' = Append(wire, Sent)
            /\ outcome' = Pending
       ELSE /\ pc' = "done"
            /\ log' = L
            /\ wire' = wire
            /\ outcome' = Exhausted

ThrottledSeconds == {1, 5}

Settings == [Convert : {"XML", "JSON"}, Retrying : 0..MaxRetrying,
             Throttled : ThrottledSeconds, IsMerchant : BOOLEAN]

NoLocal == [Convert |-> "", Retrying |-> 0, Throttled |-> 0]

\* Core.ts:115: const {Convert, Retrying, Timeout, Throttled} = this.Setting
\* (Timeout is read and never used.)
Locals(S) == [Convert |-> S.Convert, Retrying |-> S.Retrying, Throttled |-> S.Throttled]

\* The call: Core.ts:115 and the first pass through the loop head.
CallCreateRequest ==
    /\ pc = "idle"
    /\ local' = Locals(Setting)
    /\ LoopHead(0, log, Locals(Setting))
    /\ UNCHANGED <<clientVars, callVars>>

\* What the request callback can be called with: a transport error (and then
\* neither response nor body), or a response with its status and body.
TransportOutcomes ==
    [error : ErrorCodes, statusCode : {0}, body : {NoBody}]
        \cup [error : {NoError}, statusCode : StatusCodes, body : EngineBodies]

\* The transport answers: Requesting settles, the try block ends, and the
\* catch block runs up to the next await, return or throw.
RequestingSettlesWith(outcomes) ==
    /\ pc = "requesting"
    /\ \E t \in outcomes :
          LET settle == Requesting(t.error, t.statusCode, t.body)
              L == Append(log, SettleEvent(settle, t.body))
              r == TryBlock(settle, t.body, local.Convert, Action)
              c == Catch(r.error, local.Throttled)
          IN  IF r.kind = "return" \/ c.act = "throw"
              THEN /\ pc' = "done"
                   /\ log' = L
                   /\ outcome' = r
                   /\ UNCHANGED <<i, wire>>
              ELSE IF c.act = "sleep"
              THEN /\ pc' = "sleeping"
                   /\ log' = Append(L, SleepEvent(c.second))
                   /\ outcome' = outcome
                   /\ UNCHANGED <<i, wire>>
              ELSE LoopHead(i + 1, L, local)
    /\ UNCHANGED <<clientVars, callVars, local>>

RequestingSettles == RequestingSettlesWith(TransportOutcomes)

\* A timer that is armed again when it fires: the call stays in its sleep
SleepRearmed ==
    /\ pc = "sleeping"
    /\ UNCHANGED <<engineVars, clientVars, callVars>>

\* The timer of a backoff sleep fires: the loop goes on to its next pass.
SleepElapses ==
    /\ pc = "sleeping"
    /\ LoopHead(i + 1, log, local)
    /\ UNCHANGED <<clientVars, callVars, local>>

----------------------------------------------------------------------------
(* SpecClassify: Requesting on every callback argument *)

NotSettled == [kind |-> "none", error |-> NoError]

NoResp == [error |-> NoError, statusCode |-> 0, body |-> NoBody]

Responses == [error : ErrorCodes \cup {NoError}, statusCode : StatusCodes,
              body : ClassifyBodies]

RequestCallback ==
    /\ settled = NotSettled
    /\ resp \in Responses
    /\ settled' = Requesting(resp.error, resp.statusCode, resp.body)
    /\ UNCHANGED resp

----------------------------------------------------------------------------
(* The client outside a call: the fields CreateOptions reads *)

\* CoreHelpers.ts:86-105, the region table
Areas ==
    [area \in {"BR", "CA", "MX", "AE", "DE", "ES", "FR", "GB", "IN", "IT", "TR",
               "AU", "JP", "CN", "US"} |->
        CASE area = "BR" -> [Id |-> "A2Q3Y263D00KWC", Host |-> "mws.amazonservices.com"]
          [] area = "CA" -> [Id |-> "A2EUQ1WTGCTBG2", Host |-> "mws.amazonservices.ca"]
          [] area = "MX" -> [Id |-> "A1AM78C64UM0Y8", Host |-> "mws.amazonservices.com.mx"]
          [] area = "AE" -> [Id |-> "A2VIGQ35RCS4UG", Host |-> "mws.amazonservices.ae"]
          [] area = "DE" -> [Id |-> "A1PA6795UKMFR9", Host |-> "mws-eu.amazonservices.com"]
          [] area = "ES" -> [Id |-> "A1RKKUPIHCS9HS", Host |-> "mws-eu.amazonservices.com"]
          [] area = "FR" -> [Id |-> "A13V1IB3VIYZZH", Host |-> "mws-eu.amazonservices.com"]
          [] area = "GB" -> [Id |-> "A1F83G8C2ARO7P", Host |-> "mws-eu.amazonservices.com"]
          [] area = "IN" -> [Id |-> "A21TJRUUN4KGV", Host |-> "mws.amazonservices.in"]
          [] area = "IT" -> [Id |-> "APJ6JRA9NG5V4", Host |-> "mws-eu.amazonservices.com"]
          [] area = "TR" -> [Id |-> "A33AVAJ2PDY3EV", Host |-> "mws-eu.amazonservices.com"]
          [] area = "AU" -> [Id |-> "A39IBJ37TRP1C6", Host |-> "mws.amazonservices.com.au"]
          [] area = "JP" -> [Id |-> "A1VC38T7YXB528", Host |-> "mws.amazonservices.jp"]
          [] area = "CN" -> [Id |-> "AAHKV2X7AFYLW", Host |-> "mws.amazonservices.com.cn"]
          [] area = "US" -> [Id |-> "ATVPDKIKX0DER", Host |-> "mws.amazonservices.com"]]

\* areas[area] of an unlisted code is undefined
UndefinedArea == [Id |-> "undefined", Host |-> "undefined"]

CreateArea(area) == IF area \in DOMAIN Areas THEN Areas[area] ELSE UndefinedArea

\* this.Headers of a client that has built no request yet
NoHeaders == [h \in {} |-> ""]

\* A client of the Orders group as the tests construct it (test.spec.ts:5,19,20),
\* in the default region, with one of the two methods.
Clients ==
    [Path : {"Orders"}, Version : {"2013-09-01"}, Method : {"GET", "POST"},
     Headers : {NoHeaders}, Area : {CreateArea("US")},
     Seller : {[SellerId |-> "MOCK_ID", MWSAuthToken |-> "MOCK_TOKEN", Area |-> "US"]},
     Access : {[AWSAccessKeyId |-> "AKID", AWSAccessSecret |-> "SECRET"]}]

----------------------------------------------------------------------------
(* Parameter maps.  A value is a scalar, an array of scalars, or null       *)
(* (null or undefined); a map is a function from its keys to values.        *)

Scalar(x) == [kind |-> "scalar", v |-> <<x>>]

Array(xs) == [kind |-> "array", v |-> xs]

Null == [kind |-> "null", v |-> <<>>]

Undefined == [kind |-> "undefined", v |-> <<>>]

\* CoreHelpers.ts:35-37
isArray(val) == val.kind = "array"

\* CoreHelpers.ts:23-25
isNil(val) == val.kind = "undefined" \/ val.kind = "null"

EmptyMap == [k \in {} |-> Null]

\* {...a, ...b}
Merge(a, b) == [k \in DOMAIN a \cup DOMAIN b |-> IF k \in DOMAIN b THEN b[k] ELSE a[k]]

\* obj[key] = val
Set(obj, key, val) == [k \in DOMAIN obj \cup {key} |-> IF k = key THEN val ELSE obj[k]]

\* delete obj[key], for every key of keys
Delete(obj, keys) == [k \in DOMAIN obj \ keys |-> obj[k]]

\* The arrayKeyPrefixes argument: absent, or an object whose entries are kept
\* in insertion order (the order of Object.keys).
\* CoreHelpers.ts:47-49
hasKeyObject(val) == val.given /\ Len(val.entries) > 0

----------------------------------------------------------------------------
(* Core.ts:64-76, the normalisation at the head of CreateOptions *)

\* Core.ts:71, `${prefix}${inx + 1}` for the n-th element (n = inx + 1)
IndexedKeyFromZero(prefix, n) == prefix \o ToString(n - 1)

IndexedKey(prefix, n) == prefix \o ToString(n)

\* Core.ts:71, the entries one array adds to assign
Expanded(prefix, arrays) ==
    [key \in {IndexedKey(prefix, n) : n \in 1..Len(arrays)} |->
        Scalar(arrays[CHOOSE n \in 1..Len(arrays) : IndexedKey(prefix, n) = key])]

\* Core.ts:70, the test of one entry of parsing
IsArrayEntry(obj, entry) == entry.key \in DOMAIN obj /\ isArray(obj[entry.key])

\* Core.ts:66-74, assign after the first n entries of parsing
RECURSIVE AssignAfter(_, _, _)
AssignAfter(obj, entries, n) ==
    IF n = 0 THEN EmptyMap
    ELSE LET entry == entries[n]
             before == AssignAfter(obj, entries, n - 1)
         IN  IF IsArrayEntry(obj, entry)
             THEN Merge(before, Expanded(entry.prefix, obj[entry.key].v))
             ELSE before

\* Core.ts:72, the keys deleted from the object the caller passed
DeletedKeys(obj, entries) ==
    {entries[n].key : n \in {m \in 1..Len(entries) : IsArrayEntry(obj, entries[m])}}

\* The caller's object when CreateOptions returns
CallerParamsAfter(obj, pars) ==
    IF hasKeyObject(pars) THEN Delete(obj, DeletedKeys(obj, pars.entries)) ELSE obj

\* Core.ts:75, the local params after the normalisation
NormalizedParams(obj, pars) ==
    IF hasKeyObject(pars)
    THEN Merge(Delete(obj, DeletedKeys(obj, pars.entries)),
               AssignAfter(obj, pars.entries, Len(pars.entries)))
    ELSE obj

----------------------------------------------------------------------------
(* Core.ts:78-111, the rest of CreateOptions *)

\* new Date().toISOString(), Core.ts:85
Timestamps == {"2020-01-01T00:00:00.000Z", "2020-01-01T00:00:01.000Z"}

\* Core.ts:86
RemotePath(client) == "/" \o client.Path \o "/" \o client.Version

\* PreParams with the spread of params before the five keys of the literal
PreParamsBaseWins(obj, client, setting, action, Timestamp) ==
    LET base == [k \in {"Action", "AWSAccessKeyId", "MWSAuthToken", "Timestamp", "Version"} |->
                    Scalar(CASE k = "Action" -> action
                             [] k = "AWSAccessKeyId" -> client.Access.AWSAccessKeyId
                             [] k = "MWSAuthToken" -> client.Seller.MWSAuthToken
                             [] k = "Timestamp" -> Timestamp
                             [] k = "Version" -> client.Version)]
        fixed == Set(Set(Merge(obj, base), "SignatureMethod", Scalar("HmacSHA256")),
                     "SignatureVersion", Scalar("2"))
    IN  Set(fixed, IF setting.IsMerchant THEN "Merchant" ELSE "SellerId",
            Scalar(client.Seller.SellerId))

\* Core.ts:87-90
PreParams(obj, client, setting, action, Timestamp) ==
    LET base == [k \in {"Action", "AWSAccessKeyId", "MWSAuthToken", "Timestamp", "Version"} |->
                    Scalar(CASE k = "Action" -> action
                             [] k = "AWSAccessKeyId" -> client.Access.AWSAccessKeyId
                             [] k = "MWSAuthToken" -> client.Seller.MWSAuthToken
                             [] k = "Timestamp" -> Timestamp
                             [] k = "Version" -> client.Version)]
        fixed == Set(Set(Merge(base, obj), "SignatureMethod", Scalar("HmacSHA256")),
                     "SignatureVersion", Scalar("2"))
    IN  Set(fixed, IF setting.IsMerchant THEN "Merchant" ELSE "SellerId",
            Scalar(client.Seller.SellerId))

\* Every key a parameter map of the model can hold, in ascending order of
\* UTF-16 code units (the order of Array.prototype.sort).
KeyOrder ==
    <<"AWSAccessKeyId", "Action">>
        \o [n \in 1..MaxArrayLen |-> IndexedKey("Id.", n)]
        \o <<"Ids", "MWSAuthToken", "Merchant", "SellerId", "Signature",
             "SignatureMethod", "SignatureVersion">>
        \o [n \in 1..MaxArrayLen |-> IndexedKey("T.", n)]
        \o <<"Timestamp", "Tok", "Version">>

\* An object with its insertion order is the sequence of its <<key, value>>
\* entries.  Object.keys(obj):
ObjectKeys(entries) == [n \in 1..Len(entries) |-> entries[n][1]]

\* obj[key], CoreHelpers.ts:53
ValueOf(entries, key) ==
    entries[CHOOSE n \in 1..Len(entries) : entries[n][1] = key][2]

\* a < b on two keys, the comparison of Array.prototype.sort without a comparator
KeyLess(a, b) ==
    (CHOOSE n \in 1..Len(KeyOrder) : KeyOrder[n] = a)
        < (CHOOSE n \in 1..Len(KeyOrder) : KeyOrder[n] = b)

\* keys.sort(), CoreHelpers.ts:52
RECURSIVE SortKeys(_)
SortKeys(keys) ==
    IF keys = <<>> THEN <<>>
    ELSE LET key == Head(keys)
             rest == SortKeys(Tail(keys))
         IN  SelectSeq(rest, LAMBDA k : KeyLess(k, key)) \o <<key>>
                 \o SelectSeq(rest, LAMBDA k : ~KeyLess(k, key))

\* sortObject with the nil test of CoreHelpers.ts:54 left out
sortObjectKeepsNil(entries) ==
    LET keys == SortKeys(ObjectKeys(entries))
    IN  [n \in 1..Len(keys) |-> <<keys[n], ValueOf(entries, keys[n])>>]

\* CoreHelpers.ts:51-58: the reduce over the sorted keys inserts, in that order,
\* the entries whose value is not nil
sortObject(entries) ==
    LET keys == SortKeys(ObjectKeys(entries))
        kept == SelectSeq(keys, LAMBDA k : ~isNil(ValueOf(entries, k)))
    IN  [n \in 1..Len(kept) |-> <<kept[n], ValueOf(entries, kept[n])>>]

\* The order in which Core.ts:87-90 inserts the keys of PreParams: the five
\* of the literal, the keys spread from params, then the assigned ones
InsertionOrder ==
    <<"Action", "AWSAccessKeyId", "MWSAuthToken", "Timestamp", "Version", "Tok", "Ids">>
        \o [n \in 1..MaxArrayLen |-> IndexedKey("T.", n)]
        \o [n \in 1..MaxArrayLen |-> IndexedKey("Id.", n)]
        \o <<"SignatureMethod", "SignatureVersion", "Merchant", "SellerId", "Signature">>

\* The entries of a parameter map, in insertion order
ObjectEntries(obj) ==
    LET keys == SelectSeq(InsertionOrder, LAMBDA k : k \in DOMAIN obj)
    IN  [n \in 1..Len(keys) |-> <<keys[n], obj[keys[n]]>>]

\* querystring.escape on the values of the model: only ":" is escaped in them
Escape(str) ==
    CASE str = "2020-01-01T00:00:00.000Z" -> "2020-01-01T00%3A00%3A00.000Z"
      [] str = "2020-01-01T00:00:01.000Z" -> "2020-01-01T00%3A00%3A01.000Z"
      [] OTHER -> str

\* querystring.stringify of one entry: key=value, an array as key=v1&key=v2
RECURSIVE StringifyValues(_, _, _)
StringifyValues(key, vals, n) ==
    IF n = 0 THEN ""
    ELSE LET head == StringifyValues(key, vals, n - 1)
         IN  (IF head = "" THEN "" ELSE head \o "&") \o Escape(key) \o "=" \o Escape(vals[n])

\* querystring.stringify of the sorted entries
RECURSIVE StringifyEntries(_, _)
StringifyEntries(sorted, n) ==
    IF n = 0 THEN ""
    ELSE LET head == StringifyEntries(sorted, n - 1)
             this == StringifyValues(sorted[n][1], sorted[n][2].v, Len(sorted[n][2].v))
         IN  IF this = "" THEN head
             ELSE IF head = "" THEN this
             ELSE head \o "&" \o this

qsStringify(sorted) == StringifyEntries(sorted, Len(sorted))

\* Core.ts:92, the string that is signed
CanonicalString(entries, client) ==
    client.Method \o "\n" \o client.Area.Host \o "\n" \o RemotePath(client) \o "\n"
        \o qsStringify(sortObject(entries))

\* Core.ts:91-93: the digest, as a term over the secret and the signed string
Hmac(secret, message) == "base64(hmac-sha256(" \o secret \o "," \o message \o "))"

\* Core.ts:95-98
HeadersAfter(client) ==
    LET hosted == Set(client.Headers, "Host", client.Area.Host)
    IN  IF client.Method = "POST"
        THEN Set(hosted, "Content-Type", "application/x-www-form-urlencoded")
        ELSE hosted

\* Core.ts:100-109.  headers is this.Headers itself: the same object, not a copy.
\* The parameters are in qs for GET and in form otherwise; the other is absent.
PreOptions(pre, client) ==
    [method |-> client.Method,
     url |-> "https://" \o client.Area.Host \o "/" \o RemotePath(client),
     headers |-> "this.Headers",
     carrier |-> IF client.Method = "GET" THEN "qs" ELSE "form",
     parameters |-> pre]

ParamKeys == {"Ids", "Tok", "Id.1"}

MappedKeys == {"Ids", "Tok"}

Prefixes == {"Id.", "T."}

\* The arrays of the model: the prefixes of two element orders
ArraySeeds == {<<"a", "b", "c", "d">>, <<"b", "a", "d", "c">>}

Arrays == {Array(SubSeq(seed, 1, n)) : seed \in ArraySeeds, n \in 0..MaxArrayLen}

ValuesOf(key) ==
    IF key \in MappedKeys THEN Arrays \cup {Scalar("s"), Null, Undefined}
    ELSE {Scalar("s")}

\* The maps a caller passes
ParamMaps ==
    UNION {{f \in [keys -> Arrays \cup {Scalar("s"), Null, Undefined}] :
                \A k \in keys : f[k] \in ValuesOf(k)} : keys \in SUBSET ParamKeys}

\* The mappings a caller passes: absent, or entries with distinct keys
Parsings ==
    {[given |-> FALSE, entries |-> <<>>], [given |-> TRUE, entries |-> <<>>]}
        \cup {[given |-> TRUE, entries |-> <<[key |-> k, prefix |-> pre]>>] :
                k \in MappedKeys, pre \in Prefixes}
        \cup {pars \in {[given |-> TRUE, entries |-> <<e1, e2>>] :
                            e1 \in [key : MappedKeys, prefix : Prefixes],
                            e2 \in [key : MappedKeys, prefix : Prefixes]} :
                pars.entries[1].key # pars.entries[2].key}

\* Core.ts:105-109: the object under qs or form is serialised by request with
\* the qs package.  The key=value pairs it writes for one entry: none for
\* undefined, an empty value for null, key[n] for the elements of an array.
WirePairsOf(key, val) ==
    CASE val.kind = "undefined" -> {}
      [] val.kind = "null" -> {<<key, "">>}
      [] val.kind = "array" ->
            {<<key \o "[" \o ToString(n - 1) \o "]", val.v[n]>> : n \in 1..Len(val.v)}
      [] OTHER -> {<<key, val.v[1]>>}

WirePairs(obj) == UNION {WirePairsOf(key, obj[key]) : key \in DOMAIN obj}

\* The key=value pairs querystring.stringify writes into the signed string
SignedPairs(sorted) ==
    UNION {{<<sorted[n][1], sorted[n][2].v[m]>> : m \in 1..Len(sorted[n][2].v)} :
           n \in 1..Len(sorted)}

\* Core.ts:87-93, PreParams once it holds the Signature
Signed(normalized, client, setting, action, Timestamp) ==
    LET pre == PreParams(normalized, client, setting, action, Timestamp)
        signature == Hmac(client.Access.AWSAccessSecret,
                          CanonicalString(ObjectEntries(pre), client))
    IN  Set(pre, "Signature", Scalar(signature))

\* Core.ts:64-112 on a client with the given fields: the caller's object
\* loses the expanded keys, this.Headers gets its entries, and the options
\* are returned.
CreateOptionsOn(client, setting, action, Timestamp) ==
    LET normalized == NormalizedParams(params, parsing)
        signed == Signed(normalized, client, setting, action, Timestamp)
        after == [client EXCEPT !.Headers = HeadersAfter(client)]
    IN  /\ params' = CallerParamsAfter(params, parsing)
        /\ api' = after
        /\ returned' = Append(returned,
                          [passed |-> params, normalized |-> normalized,
                           options |-> PreOptions(signed, after)])

\* One call of CreateOptions(params, parsing) on the object the caller holds.
CreateOptions ==
    /\ Len(returned) < MaxCalls
    /\ \E Timestamp \in Timestamps : CreateOptionsOn(api, Setting, Action, Timestamp)
    /\ UNCHANGED <<Setting, Action, parsing, given, ctor>>

----------------------------------------------------------------------------
(* A second logical call on the client, while the first is suspended *)

\* The settings of the other call: the other response format, no retry
OtherSetting(S) ==
    [S EXCEPT !.Convert = IF S.Convert = "XML" THEN "JSON" ELSE "XML", !.Retrying = 0]

\* The caller of another request sets the endpoint fields of the client
\* (Action, Method, Setting, and Headers either kept or set to a new object)
\* and calls CreateOptions, all in one turn, while the CreateRequest call is
\* suspended at Core.ts:119 or in a sleep of Core.ts:129-132.
OtherCall ==
    /\ pc \in {"requesting", "sleeping"}
    /\ Len(returned) < MaxOthers
    /\ \E action \in Actions, method \in {"GET", "POST"}, fresh \in BOOLEAN :
          LET setting == OtherSetting(Setting)
              client == [api EXCEPT !.Method = method,
                                    !.Headers = IF fresh THEN NoHeaders ELSE @]
          IN  /\ Action' = action
              /\ Setting' = setting
              /\ CreateOptionsOn(client, setting, action, "2020-01-01T00:00:01.000Z")
              /\ mine' = IF fresh /\ mine.shared
                         THEN [mine EXCEPT !.shared = FALSE, !.headers = api.Headers]
                         ELSE mine
    /\ UNCHANGED <<parsing, given, ctor>>

----------------------------------------------------------------------------
(* Core.ts:28-58, the constructor and the two reconfiguration methods *)

\* defaultAccess and defaultSeller of ./Env (Core.ts:6): the tests construct a
\* client from SellerId and MWSAuthToken alone (test.spec.ts:5), so the
\* defaults supply the access keys and the region code.
defaultAccess == [AWSAccessKeyId |-> "AKID", AWSAccessSecret |-> "SECRET"]

defaultSeller == [SellerId |-> "", MWSAuthToken |-> "", Area |-> "US"]

\* Core.ts:39
areas == {"BR", "CA", "MX", "AE", "DE", "ES", "FR", "GB", "IN", "IT", "TR",
          "AU", "JP", "CN", "US"}

\* The region codes a caller passes: the listed ones and 'TEST' (test.spec.ts:8)
AreaArgs == areas \cup {"TEST"}

\* The seller objects a caller passes: any of the three fields, set or empty
SellerArgs ==
    UNION {{f \in [keys -> AreaArgs \cup {"", "MOCK_ID", "MOCK_TOKEN"}] :
                /\ "SellerId" \in keys => f["SellerId"] \in {"", "MOCK_ID"}
                /\ "MWSAuthToken" \in keys => f["MWSAuthToken"] \in {"", "MOCK_TOKEN"}
                /\ "Area" \in keys => f["Area"] \in AreaArgs \cup {""}} :
           keys \in SUBSET {"SellerId", "MWSAuthToken", "Area"}}

\* The access objects a caller passes: none, or one with an empty secret
AccessArgs == {EmptyMap, [AWSAccessKeyId |-> "AKID", AWSAccessSecret |-> ""]}

\* The fields of an object of class ApiOrders before the constructor of Api ran
Unconstructed ==
    [Path |-> "Orders", Version |-> "2013-09-01", Method |-> "GET",
     Headers |-> NoHeaders, Area |-> UndefinedArea,
     Seller |-> [SellerId |-> "", MWSAuthToken |-> "", Area |-> ""],
     Access |-> [AWSAccessKeyId |-> "", AWSAccessSecret |-> ""]]

\* Core.ts:28-44
Constructor ==
    /\ ctor = "none"
    /\ \E seller \in SellerArgs, access \in AccessArgs :
          LET Access == Merge(defaultAccess, access)
              Seller == Merge(defaultSeller, seller)
          IN  IF Access["AWSAccessKeyId"] = "" \/ Access["AWSAccessSecret"] = ""
              THEN ctor' = "ConfigurationError" /\ UNCHANGED api
              ELSE IF Seller["SellerId"] = "" \/ Seller["MWSAuthToken"] = ""
              THEN ctor' = "ConfigurationError" /\ UNCHANGED api
              ELSE IF Seller["Area"] \notin areas
              THEN ctor' = "ConfigurationError" /\ UNCHANGED api
              ELSE /\ ctor' = "constructed"
                   /\ api' = [api EXCEPT !.Access = Access, !.Seller = Seller,
                                         !.Area = CreateArea(Seller["Area"])]
    /\ UNCHANGED <<Setting, Action>>

\* Core.ts:47-49; called without an argument, area is 'US'
ConfigureArea ==
    /\ ctor = "constructed"
    /\ \E area \in AreaArgs : api' = [api EXCEPT !.Area = CreateArea(area)]
    /\ UNCHANGED <<Setting, Action, ctor>>

\* Core.ts:55-58
ConfigureSeller ==
    /\ ctor = "constructed"
    /\ \E seller \in SellerArgs :
          LET Seller == Merge(defaultSeller, seller)
          IN  api' = [api EXCEPT
                        !.Seller = Seller,
                        !.Area = CreateArea(IF Seller["Area"] = "" THEN "US"
                                            ELSE Seller["Area"])]
    /\ UNCHANGED <<Setting, Action, ctor>>

----------------------------------------------------------------------------
(* sortObject and the signature, on objects with an insertion order *)

SortedKeys == {"Action", "Timestamp", "Tok"}

SortedValues == {Scalar("s"), Null, Undefined}

\* The objects over some of the keys, in every insertion order
OrderedObjects ==
    UNION {{entries \in [1..n -> SortedKeys \X SortedValues] :
                \A a, b \in 1..n : entries[a][1] = entries[b][1] => a = b} :
           n \in 0..Cardinality(SortedKeys)}

NoSorting == [obj |-> <<>>, other |-> <<>>, sorted |-> <<>>, sortedOther |-> <<>>,
              signature |-> "", signatureOther |-> "", stage |-> "idle"]

\* Core.ts:91-93 on two objects: each is sorted and signed
SignObjects ==
    /\ sorting.stage = "given"
    /\ sorting' = [sorting EXCEPT
            !.sorted = sortObject(sorting.obj),
            !.sortedOther = sortObject(sorting.other),
            !.signature = Hmac(api.Access.AWSAccessSecret,
                               CanonicalString(sorting.obj, api)),
            !.signatureOther = Hmac(api.Access.AWSAccessSecret,
                                    CanonicalString(sorting.other, api)),
            !.stage = "signed"]

----------------------------------------------------------------------------
(* Specifications *)

\* CreateRequest reads Convert, Retrying and Throttled of the settings and the
\* action; IsMerchant and the other fields are read by CreateOptions alone.
ClientOf(settings, clients) ==
    /\ ctor = "constructed"
    /\ Setting \in settings
    /\ Action \in Actions
    /\ api \in clients

\* The options object of a call that was not built by the model
NoCall ==
    [options |-> [method |-> "", url |-> "", headers |-> "this.Headers",
                  carrier |-> "", parameters |-> EmptyMap],
     shared |-> TRUE, headers |-> NoHeaders]

CallIdle == mine = NoCall

EngineIdle ==
    /\ wire = <<>>
    /\ pc = "idle"
    /\ local = NoLocal
    /\ i = 0
    /\ log = <<>>
    /\ outcome = Pending

ClassifyIdle == resp = NoResp /\ settled = NotSettled

SortIdle == sorting = NoSorting

OptionsIdle ==
    /\ params = EmptyMap
    /\ parsing = [given |-> FALSE, entries |-> <<>>]
    /\ given = EmptyMap
    /\ returned = <<>>

OneClient == {c \in Clients : c.Method = "GET"}

OneSetting ==
    {S \in Settings : S.Convert = "XML" /\ S.Retrying = 0 /\ S.Throttled = 1 /\ ~S.IsMerchant}

\* The client and the options object once CreateOptions({}) has returned on
\* a client that had the fields of before: the options refer to this.Headers.
Built(before, settings) ==
    /\ ctor = "constructed"
    /\ Setting \in settings
    /\ Action \in Actions
    /\ api = [before EXCEPT !.Headers = HeadersAfter(before)]
    /\ mine = [options |-> PreOptions(Signed(EmptyMap, before, Setting, Action,
                                            "2020-01-01T00:00:00.000Z"), api),
               shared |-> TRUE, headers |-> NoHeaders]

\* A caller has built the options of a request and calls CreateRequest.
Init ==
    /\ \E before \in OneClient : Built(before, {S \in Settings : ~S.IsMerchant})
    /\ EngineIdle /\ ClassifyIdle /\ OptionsIdle /\ SortIdle

Next ==
    \/ CallCreateRequest /\ UNCHANGED <<classifyVars, optionVars, sortVars>>
    \/ RequestingSettles /\ UNCHANGED <<classifyVars, optionVars, sortVars>>
    \/ SleepElapses /\ UNCHANGED <<classifyVars, optionVars, sortVars>>

Spec == Init /\ [][Next]_vars

InitClassify ==
    /\ ClientOf(OneSetting, OneClient) /\ Action = "GetOrder"
    /\ EngineIdle /\ OptionsIdle /\ SortIdle /\ CallIdle
    /\ resp \in Responses
    /\ settled = NotSettled

NextClassify ==
    RequestCallback
        /\ UNCHANGED <<clientVars, engineVars, optionVars, sortVars, callVars>>

SpecClassify == InitClassify /\ [][NextClassify]_vars

\* A caller builds a map and a mapping, keeps the map, and calls CreateOptions
\* with them up to MaxCalls times.
InitOptions ==
    /\ ClientOf({S \in Settings : S.Convert = "XML" /\ S.Retrying = 0 /\ S.Throttled = 1},
                Clients)
    /\ Action = "GetOrder"
    /\ EngineIdle /\ ClassifyIdle /\ SortIdle /\ CallIdle
    /\ params \in ParamMaps
    /\ parsing \in Parsings
    /\ given = params
    /\ returned = <<>>

NextOptions ==
    CreateOptions /\ UNCHANGED <<engineVars, classifyVars, sortVars, callVars>>

SpecOptions == InitOptions /\ [][NextOptions]_vars

\* The keys Core.ts:87-90 writes, which a caller may pass as well
SignerKeys == {"Action", "AWSAccessKeyId", "MWSAuthToken", "Timestamp", "Version",
               "SignatureMethod", "SignatureVersion", "Merchant", "SellerId"}

\* The maps of up to MaxOverrides of these keys a caller passes
OverridingMaps ==
    UNION {[keys -> {Scalar("mine"), Null}] :
           keys \in {ks \in SUBSET SignerKeys : Cardinality(ks) <= MaxOverrides}}

\* A caller passes a map that holds keys of the signer, and no mapping.
InitSign ==
    /\ ClientOf({S \in Settings : S.Convert = "XML" /\ S.Retrying = 0 /\ S.Throttled = 1},
                Clients)
    /\ Action = "GetOrder"
    /\ EngineIdle /\ ClassifyIdle /\ SortIdle /\ CallIdle
    /\ params \in OverridingMaps
    /\ parsing = [given |-> FALSE, entries |-> <<>>]
    /\ given = params
    /\ returned = <<>>

SpecSign == InitSign /\ [][NextOptions]_vars

\* The same entries in another insertion order, with or without one more
\* entry whose value is nil
Reordered(entries) ==
    {other \in OrderedObjects :
        /\ \A n \in 1..Len(entries) : \E m \in 1..Len(other) : other[m] = entries[n]
        /\ Len(other) <= Len(entries) + 1
        /\ \A m \in 1..Len(other) :
              \/ \E n \in 1..Len(entries) : entries[n] = other[m]
              \/ isNil(other[m][2])}

InitSort ==
    /\ ClientOf(OneSetting, OneClient) /\ Action = "GetOrder"
    /\ EngineIdle /\ ClassifyIdle /\ OptionsIdle /\ CallIdle
    /\ \E obj \in OrderedObjects : \E other \in Reordered(obj) :
          sorting = [NoSorting EXCEPT !.obj = obj, !.other = other, !.stage = "given"]

NextSort ==
    SignObjects
        /\ UNCHANGED <<clientVars, engineVars, classifyVars, optionVars, callVars>>

SpecSort == InitSort /\ [][NextSort]_vars

\* The call of Spec under the scheduling of the event loop: a transport call
\* that was started completes (request calls its callback, at the latest on
\* its timeout), a timer that was armed fires (CoreHelpers.ts:70), and the
\* continuation of an await that settled runs.
\* The answers of the transport in SpecLive: every error, and every status
\* with the bodies of one element and text that hold at most one marker
LiveOutcomes ==
    {t \in TransportOutcomes :
        t.error = NoError =>
            /\ t.body.root \in {"ErrorResponse", "GetOrderResponse"}
            /\ ~t.body.prefixed
            /\ t.body.child = "GetOrderResult"
            /\ t.body.payload = "p1"}

NextLive ==
    \/ CallCreateRequest /\ UNCHANGED <<classifyVars, optionVars, sortVars>>
    \/ RequestingSettlesWith(LiveOutcomes)
            /\ UNCHANGED <<classifyVars, optionVars, sortVars>>
    \/ SleepElapses /\ UNCHANGED <<classifyVars, optionVars, sortVars>>

SpecLive == Init /\ [][NextLive]_vars /\ WF_vars(NextLive)

\* The CreateRequest call of Spec for one action, and another logical call
\* on the same client while it is suspended.
InitConcurrent ==
    /\ \E before \in OneClient :
          Built(before, {S \in Settings : ~S.IsMerchant /\ S.Throttled = 1})
    /\ Action = "GetOrder"
    /\ EngineIdle /\ ClassifyIdle /\ OptionsIdle /\ SortIdle

NextConcurrent ==
    \/ CallCreateRequest /\ UNCHANGED <<classifyVars, optionVars, sortVars>>
    \/ RequestingSettles /\ UNCHANGED <<classifyVars, optionVars, sortVars>>
    \/ SleepElapses /\ UNCHANGED <<classifyVars, optionVars, sortVars>>
    \/ OtherCall /\ UNCHANGED <<engineVars, classifyVars, sortVars>>

SpecConcurrent == InitConcurrent /\ [][NextConcurrent]_vars

\* An object of class ApiOrders is constructed and then reconfigured.
InitClient ==
    /\ ctor = "none"
    /\ Setting \in OneSetting /\ Action = "GetOrder"
    /\ api = Unconstructed
    /\ EngineIdle /\ ClassifyIdle /\ OptionsIdle /\ SortIdle /\ CallIdle

NextClient ==
    \/ Constructor /\ UNCHANGED <<engineVars, classifyVars, optionVars, sortVars, callVars>>
    \/ ConfigureArea /\ UNCHANGED <<engineVars, classifyVars, optionVars, sortVars, callVars>>
    \/ ConfigureSeller /\ UNCHANGED <<engineVars, classifyVars, optionVars, sortVars, callVars>>

SpecClient == InitClient /\ [][NextClient]_vars

----------------------------------------------------------------------------
(* What the log of a call says *)

Retryable == {"RequestTimeoutError", "QuotaExceeded", "RequestThrottled"}

FatalRemote == {"InputStreamDisconnected", "InvalidParameterValue", "AccessDenied",
                "InvalidAccessKeyId", "SignatureDoesNotMatch", "InvalidAddress",
                "InternalError"}

Aborting == FatalRemote \cup {"LocalRequestError", "UndefinedRequestError"}

\* The kinds of the error taxonomy, by the names of the classes of CoreErrors.
Taxonomy == Retryable \cup Aborting \cup {"ConfigurationError", "LocalExceededError"}

At(ev) == {k \in 1..Len(log) : log[k].ev = ev}

NumRequests == Cardinality(At("request"))

\* The classes of the attempts, in order.
Classes ==
    LET settles == SelectSeq(log, LAMBDA e : e.ev = "settle")
    IN  [k \in 1..Len(settles) |-> settles[k].cls]

AllRetryable == \A k \in 1..Len(Classes) : Classes[k] \in Retryable

\* k retryable attempts, then one that Requesting resolved
RetriedThenResolved ==
    /\ Len(Classes) >= 1
    /\ Classes[Len(Classes)] = "resolve"
    /\ \A k \in 1..(Len(Classes) - 1) : Classes[k] \in Retryable

----------------------------------------------------------------------------
(* C1: a CreateRequest call with Retrying = R >= 0 invokes the transport at  *)
(* most R+1 times, and exactly R+1 times when every attempt is classified   *)
(* Timeout, QuotaExceeded or Throttled, in any mix.                         *)
C1_AttemptBudget ==
    /\ NumRequests <= Setting.Retrying + 1
    /\ (pc = "done" /\ AllRetryable) => NumRequests = Setting.Retrying + 1

\* A finished call of budget 2 whose three attempts were one of each kind.
C1_Witness ==
    /\ pc = "done"
    /\ Setting.Retrying = 2
    /\ AllRetryable
    /\ {Classes[k] : k \in 1..Len(Classes)} = Retryable
    /\ NumRequests = 3

(* C2: an attempt classified as a fatal remote error, LocalRequestError or  *)
(* UndefinedRequestError ends the call at once: nothing follows it in the   *)
(* log (no transport call, no sleep) and the call fails with that error.    *)
C2_AbortImmediately ==
    \A k \in At("settle") :
        log[k].cls \in Aborting =>
            /\ k = Len(log)
            /\ pc = "done"
            /\ outcome = Throw(log[k].cls)

\* A call aborted by a fatal remote error on its second attempt, with budget left.
C2_Witness ==
    /\ pc = "done"
    /\ Setting.Retrying = 2
    /\ Len(Classes) = 2
    /\ Classes[1] \in Retryable
    /\ Classes[2] \in FatalRemote
    /\ outcome.kind = "throw"

(* C3: when all R+1 attempts end in Timeout, QuotaExceeded or Throttled the *)
(* call fails with LocalExceededError; it never fails with the retryable    *)
(* error of an attempt.                                                     *)
C3_RetriesExhausted ==
    /\ outcome.error \notin Retryable
    /\ (pc = "done" /\ AllRetryable /\ Len(Classes) = Setting.Retrying + 1)
            => outcome = Throw("LocalExceededError")

\* maxRetries = 1 and two consecutive timeouts
C3_Witness ==
    /\ pc = "done"
    /\ Setting.Retrying = 1
    /\ Classes = <<"RequestTimeoutError", "RequestTimeoutError">>
    /\ outcome.error = "LocalExceededError"

(* C4, as claimed: k <= R retryable attempts followed by one classified     *)
(* Success make the call succeed after exactly k+1 transport calls.         *)
C4_Original ==
    (pc = "done" /\ RetriedThenResolved) =>
        /\ outcome.kind = "return"
        /\ NumRequests = Len(Classes)

(* C4, amended: k <= R retryable attempts followed by one that Requesting   *)
(* resolved end the call after exactly k+1 transport calls with what the    *)
(* body of attempt k+1 gives: the body itself under the raw format, the     *)
(* result or the error of CreateResponse on it otherwise.                   *)
C4_ResolvedAttemptDecides ==
    (pc = "done" /\ RetriedThenResolved) =>
        LET body == log[Len(log)].body
        IN  /\ log[Len(log)].ev = "settle"
            /\ NumRequests = Len(Classes)
            /\ Len(Classes) <= Setting.Retrying + 1
            /\ outcome = IF Setting.Convert = "XML" THEN Return(body)
                         ELSE CreateResponse(body, Action)

\* Two timeouts then a resolved attempt with maxRetries = 2: all three attempts
\* used, and the decoded result of the third returned.
C4_Witness ==
    /\ pc = "done"
    /\ Setting.Retrying = 2
    /\ Setting.Convert = "JSON"
    /\ Classes = <<"RequestTimeoutError", "RequestTimeoutError", "resolve">>
    /\ NumRequests = 3
    /\ outcome = Return(Decoded("p2"))

(* C5: between an attempt and the next one the call sleeps exactly          *)
(* Setting.Throttled seconds after Throttled, exactly 3600 seconds after    *)
(* QuotaExceeded, and not at all after Timeout.                             *)
C5_BackoffBetweenAttempts ==
    \A k \in At("request") :
        k > 1 =>
            \/ /\ log[k - 1].ev = "settle"
               /\ log[k - 1].cls = "RequestTimeoutError"
            \/ /\ log[k - 1].ev = "sleep"
               /\ log[k - 2].ev = "settle"
               /\ \/ /\ log[k - 2].cls = "RequestThrottled"
                     /\ log[k - 1].ms = Setting.Throttled * 1000
                  \/ /\ log[k - 2].cls = "QuotaExceeded"
                     /\ log[k - 1].ms = 3600 * 1000

\* A call that was throttled, slept the backoff, timed out, retried at once
\* and then hit the quota.
C5_Witness ==
    /\ Setting.Retrying = 2
    /\ Setting.Throttled = 5
    /\ Classes = <<"RequestThrottled", "RequestTimeoutError", "QuotaExceeded">>
    /\ Len(log) >= 7
    /\ log[3].ev = "sleep" /\ log[3].ms = 5000 /\ log[4].ev = "request"
    /\ log[5].ev = "settle" /\ log[6].ev = "request"

(* C6: every backoff sleep of a call is followed by a further transport     *)
(* attempt of the same call.                                                *)
C6_SleepThenRetry ==
    pc = "done" =>
        \A k \in At("sleep") : k < Len(log) /\ log[k + 1].ev = "request"

(* C7: a call either returns a result or fails with one kind of the error   *)
(* taxonomy; no raw runtime exception reaches the caller.                   *)
C7_OnlyTaxonomyErrors ==
    pc = "done" => (outcome.kind = "return" \/ outcome.error \in Taxonomy)

(* C8: Requesting resolves (Success) only when the status is 2xx and the    *)
(* body holds no error envelope.                                            *)
C8_SuccessOnly2xx ==
    settled.kind = "resolve" =>
        /\ resp.error = NoError
        /\ resp.statusCode \in 200..299
        /\ ~HasErrorEnvelope(resp.body)

----------------------------------------------------------------------------
(* What a call of CreateOptions was asked to expand *)

\* The entries of the mapping whose key held an array in the map passed
ArrayEntries(call) ==
    IF hasKeyObject(parsing)
    THEN {n \in 1..Len(parsing.entries) : IsArrayEntry(call.passed, parsing.entries[n])}
    ELSE {}

\* The keys the n-th entry of the mapping generates
GeneratedKeys(call, n) ==
    {parsing.entries[n].prefix \o ToString(m) :
        m \in 1..Len(call.passed[parsing.entries[n].key].v)}

\* No generated key is generated twice or is a key of the map passed
NoCollision(call) ==
    /\ \A n1, n2 \in ArrayEntries(call) :
            n1 # n2 => GeneratedKeys(call, n1) \cap GeneratedKeys(call, n2) = {}
    /\ \A n \in ArrayEntries(call) : GeneratedKeys(call, n) \cap DOMAIN call.passed = {}

\* The claimed result of the normaliser for one call
ExpandsAndCarries(call) ==
    LET arrayKeys == {parsing.entries[n].key : n \in ArrayEntries(call)}
    IN  /\ \A n \in ArrayEntries(call) :
              LET entry == parsing.entries[n]
                  arrays == call.passed[entry.key].v
              IN  /\ entry.key \notin DOMAIN call.normalized
                  /\ \A m \in 1..Len(arrays) :
                        /\ entry.prefix \o ToString(m) \in DOMAIN call.normalized
                        /\ call.normalized[entry.prefix \o ToString(m)] = Scalar(arrays[m])
        /\ \A key \in DOMAIN call.passed \ arrayKeys :
              /\ key \in DOMAIN call.normalized
              /\ call.normalized[key] = call.passed[key]
        /\ ~hasKeyObject(parsing) => call.normalized = call.passed

(* C9: CreateOptions does not mutate the map the caller passed: after the   *)
(* call the caller's map has the keys and values it had before.             *)
C9_CallerMapUnchanged ==
    returned # <<>> => params = given

(* C10, as claimed: every mapped key holding an array of N elements gives   *)
(* the N entries prefix+i -> i-th element and no entry under its own key;   *)
(* every other key is carried over unchanged; an empty or absent mapping    *)
(* passes the map through.                                                  *)
C10_Original ==
    \A c \in 1..Len(returned) : ExpandsAndCarries(returned[c])

(* C10, amended: the same, for the calls in which no generated key prefix+i *)
(* is generated twice or is a key of the map passed.                        *)
C10_NormalizerResult ==
    \A c \in 1..Len(returned) :
        NoCollision(returned[c]) =>
            /\ ExpandsAndCarries(returned[c])
            /\ DOMAIN returned[c].normalized =
                  (DOMAIN returned[c].passed
                        \ {parsing.entries[n].key : n \in ArrayEntries(returned[c])})
                  \cup UNION {GeneratedKeys(returned[c], n) : n \in ArrayEntries(returned[c])}

\* {Ids: ["a","b"], Tok: "s"} with {Ids: "Id.", Tok: "T."} gave
\* {"Id.1": "a", "Id.2": "b", Tok: "s"}.
C10_Witness ==
    /\ Len(returned) >= 1
    /\ parsing.entries = <<[key |-> "Ids", prefix |-> "Id."], [key |-> "Tok", prefix |-> "T."]>>
    /\ returned[1].passed = [Ids |-> Array(<<"a", "b">>), Tok |-> Scalar("s")]
    /\ DOMAIN returned[1].normalized = {"Id.1", "Id.2", "Tok"}
    /\ returned[1].normalized["Id.1"] = Scalar("a")
    /\ returned[1].normalized["Id.2"] = Scalar("b")
    /\ returned[1].normalized["Tok"] = Scalar("s")

----------------------------------------------------------------------------
\* The keys of SpecSort in ascending order of their UTF-16 code units
AscendingKeys == <<"Action", "Timestamp", "Tok">>

PositionOf(key) == CHOOSE n \in 1..Len(AscendingKeys) : AscendingKeys[n] = key

EntriesOf(entries) == {entries[n] : n \in 1..Len(entries)}

(* C11: sortObject returns exactly the entries whose value is neither null  *)
(* nor undefined, in ascending key order; so two objects with the same      *)
(* entries in different insertion orders, with or without one more entry   *)
(* whose value is null or undefined, give the same sorted entries, the same *)
(* canonical string and the same signature.                                 *)
C11_SortedAndOrderFree ==
    sorting.stage = "signed" =>
        /\ EntriesOf(sorting.sorted)
              = {e \in EntriesOf(sorting.obj) : e[2] # Null /\ e[2] # Undefined}
        /\ \A n, m \in 1..Len(sorting.sorted) :
              n < m => PositionOf(sorting.sorted[n][1]) < PositionOf(sorting.sorted[m][1])
        /\ sorting.sortedOther = sorting.sorted
        /\ sorting.signatureOther = sorting.signature

\* Two entries inserted in descending order, signed next to the same entries
\* in the other order with an undefined-valued entry between them.
C11_Witness ==
    /\ sorting.stage = "signed"
    /\ sorting.obj = << <<"Tok", Scalar("s")>>, <<"Action", Scalar("s")>> >>
    /\ sorting.other = << <<"Action", Scalar("s")>>, <<"Timestamp", Undefined>>,
                          <<"Tok", Scalar("s")>> >>
    /\ sorting.sorted = << <<"Action", Scalar("s")>>, <<"Tok", Scalar("s")>> >>

----------------------------------------------------------------------------
\* The five keys of the literal of Core.ts:87 and the values the client gives them
BaseKeys == {"Action", "AWSAccessKeyId", "MWSAuthToken", "Timestamp", "Version"}

BaseValues(key) ==
    CASE key = "Action" -> {Scalar(Action)}
      [] key = "AWSAccessKeyId" -> {Scalar("AKID")}
      [] key = "MWSAuthToken" -> {Scalar("MOCK_TOKEN")}
      [] key = "Timestamp" -> {Scalar(t) : t \in Timestamps}
      [] key = "Version" -> {Scalar("2013-09-01")}

\* What CreateOptions leaves under a key it does not assign itself
AsPassed(call, key) ==
    /\ key \in DOMAIN call.options.parameters <=> key \in DOMAIN call.passed
    /\ key \in DOMAIN call.passed => call.options.parameters[key] = call.passed[key]

(* C12: in the parameters CreateOptions signs and sends, a key of Action,   *)
(* AWSAccessKeyId, MWSAuthToken, Timestamp, Version has the caller's value  *)
(* when the caller passed that key and the client's value otherwise;        *)
(* SignatureMethod is "HmacSHA256" and SignatureVersion is "2" whatever the *)
(* caller passed; the principal id is under Merchant when IsMerchant is set *)
(* and under SellerId otherwise, and the other of the two keys is as the    *)
(* caller passed it (absent when the caller did not pass it).               *)
C12_OverridesAndFixedKeys ==
    \A c \in 1..Len(returned) :
        LET call == returned[c]
            sent == call.options.parameters
        IN  /\ \A k \in BaseKeys :
                  IF k \in DOMAIN call.passed THEN sent[k] = call.passed[k]
                  ELSE sent[k] \in BaseValues(k)
            /\ sent["SignatureMethod"] = Scalar("HmacSHA256")
            /\ sent["SignatureVersion"] = Scalar("2")
            /\ IF Setting.IsMerchant
               THEN sent["Merchant"] = Scalar("MOCK_ID") /\ AsPassed(call, "SellerId")
               ELSE sent["SellerId"] = Scalar("MOCK_ID") /\ AsPassed(call, "Merchant")

\* A merchant-discriminated call whose caller passed Action and SignatureMethod,
\* and one whose caller passed Timestamp and SellerId.
C12_Witness ==
    /\ Setting.IsMerchant
    /\ Len(returned) = 2
    /\ \/ /\ DOMAIN given = {"Action", "SignatureMethod"}
          /\ returned[2].options.parameters["Action"] = Scalar("mine")
          /\ returned[2].options.parameters["SignatureMethod"] = Scalar("HmacSHA256")
          /\ given["SignatureMethod"] = Scalar("mine")
          /\ "SellerId" \notin DOMAIN returned[2].options.parameters
       \/ /\ DOMAIN given = {"Timestamp", "SellerId"}
          /\ returned[2].options.parameters["Timestamp"] = Scalar("mine")
          /\ returned[2].options.parameters["SellerId"] = Scalar("mine")
          /\ returned[2].options.parameters["Merchant"] = Scalar("MOCK_ID")

----------------------------------------------------------------------------
(* C13: once the constructor has returned, and after any sequence of        *)
(* ConfigureArea and ConfigureSeller calls, the region descriptor of the    *)
(* client is the directory entry of one of the fifteen region codes; a      *)
(* constructor that threw has thrown ConfigurationError.                    *)
C13_RegionAlwaysListed ==
    /\ ctor = "constructed" =>
          /\ \E code \in areas : api.Area = Areas[code]
          /\ api.Area.Host # "undefined"
    /\ ctor \in {"none", "constructed", "ConfigurationError"}

----------------------------------------------------------------------------
(* C14: when CreateResponse decodes the body Requesting resolved with, a    *)
(* body whose root is ErrorResponse makes the call fail with                *)
(* UndefinedRequestError; a body that holds the element ActionResult under  *)
(* the root ActionResponse makes it return the content of that element; and *)
(* a body in which either of the two elements is missing makes it fail with *)
(* an error, not return a value.                                            *)
C14_DecoderFailsOnMissingPath ==
    (/\ pc = "done"
     /\ local.Convert = "JSON"
     /\ log # <<>>
     /\ log[Len(log)].ev = "settle"
     /\ log[Len(log)].cls = "resolve") =>
        LET body == log[Len(log)].body
        IN  IF body.root = "ErrorResponse"
            THEN outcome.kind = "throw" /\ outcome.error = "UndefinedRequestError"
            ELSE IF body.root = Action \o "Response" /\ body.child = Action \o "Result"
            THEN outcome.kind = "return" /\ outcome.value.payload = body.payload
            ELSE outcome.kind = "throw"

----------------------------------------------------------------------------
\* The action name, budget and format the CreateRequest call was started with
\* (SpecConcurrent starts every call with the action GetOrder)
MyAction == "GetOrder"

\* The headers of the request as CreateOptions built it for a GET in region US
MyHeaders == [h \in {"Host"} |-> "mws.amazonservices.com"]

(* C15: another logical call on the same client, which sets the endpoint    *)
(* fields and runs CreateOptions while the CreateRequest call is suspended, *)
(* does not alter what the CreateRequest call sends or how it is decoded:   *)
(* every transport call carries the headers that were built for it, the     *)
(* call makes at most its own Retrying + 1 attempts, and a resolved body is *)
(* returned raw under its own format XML and decoded with its own action    *)
(* name under JSON.                                                         *)
C15_NoInterference ==
    /\ \A k \in 1..Len(wire) : wire[k].headers = MyHeaders
    /\ NumRequests <= local.Retrying + 1
    /\ (/\ pc = "done"
        /\ log # <<>>
        /\ log[Len(log)].ev = "settle"
        /\ log[Len(log)].cls = "resolve") =>
          LET body == log[Len(log)].body
          IN  IF local.Convert = "XML" THEN outcome = Return(body)
              ELSE outcome = CreateResponse(body, MyAction)

----------------------------------------------------------------------------
(* C17: every transport call of one CreateRequest call sends the same       *)
(* request: method, url, headers and parameters (Timestamp and Signature    *)
(* among them) of attempt k+1 are those of attempt k.                       *)
C17_SameRequestEveryAttempt ==
    \A k \in 1..(Len(wire) - 1) : wire[k + 1] = wire[k]

----------------------------------------------------------------------------
(* C16: the url of the options CreateOptions returns is                     *)
(* https://{Host}/{Path}/{Version}, with one "/" between the host and the   *)
(* path and one between the path and the version.                           *)
C16_UrlSingleSlash ==
    \A c \in 1..Len(returned) :
        returned[c].options.url
            = "https://" \o api.Area.Host \o "/" \o api.Path \o "/" \o api.Version

----------------------------------------------------------------------------
\* The status and the marker of each specific rejection
SpecificRules ==
    {<<400, "InputStreamDisconnected">>, <<400, "InvalidParameterValue">>,
     <<401, "AccessDenied">>, <<403, "InvalidAccessKeyId">>,
     <<403, "SignatureDoesNotMatch">>, <<404, "InvalidAddress">>,
     <<500, "InternalError">>, <<503, "QuotaExceeded">>, <<503, "RequestThrottled">>}

\* The pairs of rules of one status: the first wins over the second
Precedence ==
    {<<"InputStreamDisconnected", "InvalidParameterValue">>,
     <<"InvalidAccessKeyId", "SignatureDoesNotMatch">>,
     <<"QuotaExceeded", "RequestThrottled">>}

\* The rules whose status and marker the response has
Matched == {rule \in SpecificRules : rule[1] = resp.statusCode /\ rule[2] \in resp.body.markers}

(* C18: Requesting classifies by first match.  A transport error decides    *)
(* alone: RequestTimeoutError for ESOCKETTIMEDOUT and ETIMEDOUT, else       *)
(* LocalRequestError, whatever the status and the body.  Without one, a     *)
(* specific class is chosen only when the response has both its status and  *)
(* its marker, and is chosen whenever some rule matches; of two matching    *)
(* rules of one status the earlier is chosen (InputStreamDisconnected over  *)
(* InvalidParameterValue, InvalidAccessKeyId over SignatureDoesNotMatch,    *)
(* QuotaExceeded over RequestThrottled); UndefinedRequestError is chosen    *)
(* exactly when no rule matches and the body holds an ErrorResponse         *)
(* envelope.                                                                *)
C18_FirstMatchPrecedence ==
    settled # NotSettled =>
        IF resp.error \in {"ESOCKETTIMEDOUT", "ETIMEDOUT"}
        THEN settled = Reject("RequestTimeoutError")
        ELSE IF resp.error # NoError
        THEN settled = Reject("LocalRequestError")
        ELSE /\ settled.error \in Markers <=> Matched # {}
             /\ settled.error \in Markers => <<resp.statusCode, settled.error>> \in Matched
             /\ \A pair \in Precedence :
                   <<resp.statusCode, pair[1]>> \in Matched => settled.error # pair[2]
             /\ settled.error = "UndefinedRequestError"
                   <=> (Matched = {} /\ HasErrorEnvelope(resp.body))
             /\ settled.error \notin {"RequestTimeoutError", "LocalRequestError"}

\* A 503 response whose body holds both markers of that status, inside an
\* ErrorResponse envelope, classified as QuotaExceeded.
C18_Witness ==
    /\ settled = Reject("QuotaExceeded")
    /\ resp.error = NoError
    /\ resp.statusCode = 503
    /\ resp.body.markers = {"QuotaExceeded", "RequestThrottled"}
    /\ HasErrorEnvelope(resp.body)

----------------------------------------------------------------------------
(* C19: for every map the caller passes, the key=value pairs CreateOptions  *)
(* puts on the wire (query string or form body), Signature left out, are    *)
(* the pairs of the string that was signed; and the Signature is the digest *)
(* of a string built from the parameters without the Signature.             *)
C19_WireEqualsSigned ==
    \A c \in 1..Len(returned) :
        LET sent == returned[c].options.parameters
            unsigned == Delete(sent, {"Signature"})
        IN  /\ sent["Signature"]
                  = Scalar(Hmac(api.Access.AWSAccessSecret,
                                CanonicalString(ObjectEntries(unsigned), api)))
            /\ WirePairs(unsigned) = SignedPairs(sortObject(ObjectEntries(unsigned)))

----------------------------------------------------------------------------
\* The call has ended: it has returned or thrown, and it has called the
\* transport at least once when it ended with LocalExceededError
Ended ==
    /\ pc = "done"
    /\ outcome.kind \in {"return", "throw"}
    /\ outcome = Exhausted => NumRequests >= 1

(* C20: when every transport call completes and every sleep elapses, a      *)
(* CreateRequest call ends: it reaches a state in which it has returned or  *)
(* thrown, having called the transport at least once when the error is      *)
(* LocalExceededError, and it stays in that state with that one outcome.    *)
C20_TerminatesOnce ==
    /\ <>[]Ended
    /\ [][pc = "done" => pc' = "done" /\ outcome' = outcome]_vars

\* A call with no retry that ended with LocalExceededError after its one
\* transport call and a sleep of an hour.
C20_Witness ==
    /\ pc = "done"
    /\ local.Retrying = 0
    /\ outcome = Exhausted
    /\ NumRequests = 1
    /\ \E k \in At("sleep") : log[k].ms = 3600000

====
